---- MODULE Spec2Model ----
(***************************************************************************)
(* The live session engine of ArenaView (src/components/HomeView.tsx):     *)
(* the connection lifecycle driven by the channel callbacks, the audio     *)
(* capture path gated by mute, and the playback scheduler with its cursor, *)
(* live clip set, speaking signal and interruption handling; the periodic   *)
(* whiteboard capture, the teardown run when the arena is left with the    *)
(* session result it hands over, and the canvas gestures.                  *)
(*                                                                         *)
(* Time is counted in whole units of the devices' clocks; a clip duration  *)
(* is a whole number of such units.  Every connectToLiveAPI invocation is  *)
(* an "attempt" 1..MaxAttempts; every inbound message has an index         *)
(* 1..MaxMsgs, and the clip a message schedules carries that index.  The    *)
(* viewport scale is counted in thousandths.                               *)
(***************************************************************************)
EXTENDS FiniteSets, Integers, Sequences, TLC

\* ------------------------------------------------------------------ bounds
MaxAttempts == 2
MaxMsgs == 3
MaxFrames == 2
MaxTime == 2
MaxTicks == 2
MaxClock == 2
MaxGestures == 8
MaxWheel == 4
MaxSessions == 2

VARIABLES
    mounted,            \* "pre": rendered, effects not yet run; "live": mounted
    connectionState,    \* useState 'initializing' | 'connected' | 'error' | 'disconnected'
    errorMessage,       \* useState('')
    isAiSpeaking,       \* useState(false)
    isMuted,            \* useState(false)
    nAttempts,          \* connectToLiveAPI invocations so far
    phase,              \* per attempt: where its invocation / channel stands
    closureMuted,       \* per attempt: isMuted as closed over by that invocation
    processorOn,        \* attempts whose onaudioprocess is installed and wired
    sessionPromiseRef,  \* attempt whose promise the ref holds, 0 for null
    time,               \* wall clock
    audioContextRef,    \* creation time of the current output context, -1 for null
    nextStartTimeRef,   \* the playback cursor
    clips,              \* per message index: the clip it scheduled, if any
    sourceNodesRef,     \* the live clip set
    transcriptRef,      \* accumulated transcript
    outbox,             \* payloads submitted to sendRealtimeInput, in order
    nMsgs,              \* inbound messages handled so far
    nFrames,            \* microphone frames delivered so far
    retryClicks,        \* Retry Connection clicks so far
    sumDur,             \* durations of clips scheduled since the last cursor reset
    sumSnap,            \* total underrun snap-forward since the last cursor reset
    snapTo,             \* device time of the latest underrun snap since the reset
    lastInterrupt,      \* index of the last message whose interrupted branch ran
    nTicks,             \* capture interval callbacks run so far
    captures,           \* per capture tick: where its callback stands
    thenQueue,          \* image payloads waiting for a session promise to resolve
    ctxRef,             \* attempt whose contexts the two context refs hold, 0 for null
    ctxIn,              \* per attempt: its input AudioContext
    ctxOut,             \* per attempt: its output AudioContext
    micStream,          \* per attempt: the MediaStream getUserMedia gave it
    closePending,       \* attempts whose promise carries the cleanup's then(s => s.close())
    teardownLog,        \* the releases the cleanup has made, in order
    exitPhase,          \* phase of the latest attempt when the arena was left
    sessionData,        \* what onEnd was called with
    elapsedTime,        \* useState(0), seconds
    nClock,             \* runs of the clock timer so far
    viewportSize,       \* useState({ w: 0, h: 0 })
    scale,              \* useState(1), in thousandths
    offset,             \* useState({ x: 0, y: 0 })
    activeTool,         \* useState('hand')
    isDragging,         \* useState(false)
    dragStart,          \* useState({ x: 0, y: 0 })
    currentPath,        \* useState(''): the in-progress path, as its points
    paths,              \* committed paths
    notes,              \* notes
    shapes,             \* shapes
    nGestures,          \* canvas and toolbar events so far
    undoFrom,           \* number of committed paths at the latest undo click, -1 if none
    activeColor,        \* useState('#ef4444')
    roundTrip,          \* a call of screenToWorld on a rendered point: arguments and result
    pcm,                \* a call of floatTo16BitPCM: argument and result
    currentView,        \* App: useState(AppView.HOME)
    topic,              \* App: useState(''), as its characters
    initialInfographic, \* App: useState(''), as its parts
    homeTopic,          \* HomeView: useState(''), as its characters
    isLoading,          \* HomeView: useState(false)
    nSessions           \* times the arena view has been entered

snapVars == <<nTicks, captures, thenQueue>>
devVars == <<ctxRef, ctxIn, ctxOut, micStream>>
exitVars == <<closePending, teardownLog, exitPhase, sessionData>>
clockVars == <<elapsedTime, nClock>>
canvasVars == <<viewportSize, scale, offset, activeTool, isDragging, dragStart,
                currentPath, paths, notes, shapes, nGestures, undoFrom, activeColor>>
callVars == <<roundTrip, pcm>>
appVars == <<currentView, topic, initialInfographic>>
homeVars == <<homeTopic, isLoading, nSessions>>
arenaVars == <<mounted, connectionState, errorMessage, isAiSpeaking, isMuted, nAttempts,
               phase, closureMuted, processorOn, sessionPromiseRef, time, audioContextRef,
               nextStartTimeRef, clips, sourceNodesRef, transcriptRef, outbox, nMsgs,
               nFrames, retryClicks, sumDur, sumSnap, snapTo, lastInterrupt,
               snapVars, devVars, exitVars, clockVars, canvasVars>>

vars == <<mounted, connectionState, errorMessage, isAiSpeaking, isMuted, nAttempts,
          phase, closureMuted, processorOn, sessionPromiseRef, time, audioContextRef,
          nextStartTimeRef, clips, sourceNodesRef, transcriptRef, outbox, nMsgs,
          nFrames, retryClicks, sumDur, sumSnap, snapTo, lastInterrupt,
          snapVars, devVars, exitVars, clockVars, callVars, appVars, homeVars, canvasVars>>

connVars == <<connectionState, errorMessage, nAttempts, phase, closureMuted,
              processorOn, sessionPromiseRef, audioContextRef, retryClicks>>
schedVars == <<isAiSpeaking, nextStartTimeRef, clips, sourceNodesRef, transcriptRef,
               nMsgs, sumDur, sumSnap, snapTo, lastInterrupt>>

Attempts == 1..MaxAttempts
MsgIds == 1..MaxMsgs
TickIds == 1..MaxTicks

\* ------------------------------------------------------------------ inputs
\* buffer.duration of a decoded clip, in clock units
Durations == {1, 2}

NoAudio == [present |-> FALSE, ok |-> TRUE, dur |-> 0]
BadAudio == [present |-> TRUE, ok |-> FALSE, dur |-> 0]
AudioInputs == {NoAudio, BadAudio} \cup {[present |-> TRUE, ok |-> TRUE, dur |-> d] : d \in Durations}

\* msg.serverContent: modelTurn audio, turnComplete, interrupted
Messages == [audio : AudioInputs, turnComplete : BOOLEAN, interrupted : BOOLEAN]

\* e.message of what connectToLiveAPI's try block can throw
Thrown == {"", "Permission denied"}

NoClip == [state |-> "none", start |-> 0, dur |-> 0, epoch |-> 0, gen |-> 0]

\* onEnd not called yet
NoCall == [called |-> FALSE]
NoResult == [ended |-> FALSE, duration |-> <<>>, transcript |-> <<>>]

\* useState(1)
InitialScale == 1000

\* ------------------------------------------------------------------ helpers

\* the catch without its fallback text
CatchMessageRaw(m) == m

\* catch (e): setErrorMessage(e.message || "Failed to initialize audio.")
CatchMessage(m) == IF m = "" THEN "Failed to initialize audio." ELSE m

\* ctx.currentTime of the current output context
CurrentTime == time - audioContextRef

\* a scheduler that always restarts at the device clock
ScheduleStartAlwaysNow(cursor, now) == now

\* a scheduler without the underrun snap
ScheduleStartNoSnap(cursor, now) == cursor

\* if (nextStartTimeRef.current < currentTime) nextStartTimeRef.current = currentTime;
\* audioSource.start(nextStartTimeRef.current)
ScheduleStart(cursor, now) == IF cursor < now THEN now ELSE cursor

\* a cursor advanced twice per clip
AdvanceCursorTwice(start, dur) == start + dur + dur

\* nextStartTimeRef.current += buffer.duration
AdvanceCursor(start, dur) == start + dur

\* an interruption that stops only the clips that have begun to play
StopStarted(cl, nodes) ==
    [i \in MsgIds |-> IF i \in nodes /\ cl[i].state = "scheduled" /\ cl[i].start <= CurrentTime
                      THEN [cl[i] EXCEPT !.state = "stopped"]
                      ELSE cl[i]]

\* sourceNodesRef.current.forEach(node => node.stop())
StopAll(cl, nodes) ==
    [i \in MsgIds |-> IF i \in nodes /\ cl[i].state = "scheduled"
                      THEN [cl[i] EXCEPT !.state = "stopped"]
                      ELSE cl[i]]

\* a handler that records a turn for an interruption as well
TurnCompleteOrInterrupted(m, threw) == ~threw /\ (m.turnComplete \/ m.interrupted)

\* if (msg.serverContent?.turnComplete), reached when the decoding did not throw
TurnComplete(m, threw) == ~threw /\ m.turnComplete

\* transcriptRef.current.push({ role: 'model', text: '(Audio Response)', timestamp })
Placeholder == [role |-> "model", text |-> "(Audio Response)"]

\* sourceNodesRef.current.clear()
ClearNodes(nodes) == {}

\* the render returns the main view, with the container, the world and the
\* control bar, unless the state is 'initializing' or 'error'
MainViewOf(state) == state \notin {"initializing", "error"}

\* containerRef.current.clientWidth / clientHeight
ContainerSize == [w |-> 800, h |-> 600]

\* session.sendRealtimeInput({ media: { mimeType: 'image/jpeg', data } }) of capture
\* tick k on the session of attempt a, while the connection state is st
ImagePayload(a, k, st) ==
    [mimeType |-> "image/jpeg", att |-> a, frame |-> k, connAtSubmit |-> st]

\* the waiting payloads of attempt a, the one that waited last submitted first
RECURSIVE FlushLastFirst(_, _, _)
FlushLastFirst(queue, a, st) ==
    IF queue = <<>> THEN <<>>
    ELSE IF Head(queue).att = a
         THEN FlushLastFirst(Tail(queue), a, st) \o <<ImagePayload(a, Head(queue).tick, st)>>
         ELSE FlushLastFirst(Tail(queue), a, st)

\* the payloads that waited for the promise of attempt a, submitted as it resolves
RECURSIVE Flush(_, _, _)
Flush(queue, a, st) ==
    IF queue = <<>> THEN <<>>
    ELSE IF Head(queue).att = a
         THEN <<ImagePayload(a, Head(queue).tick, st)>> \o Flush(Tail(queue), a, st)
         ELSE Flush(Tail(queue), a, st)

\* ------------------------------------------------------------------ Init
InitArena ==
    /\ mounted = "pre"
    /\ connectionState = "initializing"
    /\ errorMessage = ""
    /\ isAiSpeaking = FALSE
    /\ isMuted = FALSE
    /\ nAttempts = 0
    /\ phase = [a \in Attempts |-> "none"]
    /\ closureMuted = [a \in Attempts |-> FALSE]
    /\ processorOn = {}
    /\ sessionPromiseRef = 0
    /\ time = 0
    /\ audioContextRef = -1
    /\ nextStartTimeRef = 0
    /\ clips = [i \in MsgIds |-> NoClip]
    /\ sourceNodesRef = {}
    /\ transcriptRef = <<>>
    /\ outbox = <<>>
    /\ nMsgs = 0
    /\ nFrames = 0
    /\ retryClicks = 0
    /\ sumDur = 0
    /\ sumSnap = 0
    /\ snapTo = 0
    /\ lastInterrupt = 0
    /\ nTicks = 0
    /\ captures = [k \in TickIds |-> "none"]
    /\ thenQueue = <<>>
    /\ ctxRef = 0
    /\ ctxIn = [a \in Attempts |-> "none"]
    /\ ctxOut = [a \in Attempts |-> "none"]
    /\ micStream = [a \in Attempts |-> "none"]
    /\ closePending = {}
    /\ teardownLog = <<>>
    /\ exitPhase = "none"
    /\ sessionData = NoResult
    /\ elapsedTime = 0
    /\ nClock = 0
    /\ viewportSize = [w |-> 0, h |-> 0]
    /\ scale = InitialScale
    /\ offset = [x |-> 0, y |-> 0]
    /\ activeTool = "hand"
    /\ isDragging = FALSE
    /\ dragStart = [x |-> 0, y |-> 0]
    /\ currentPath = <<>>
    /\ paths = <<>>
    /\ notes = <<>>
    /\ shapes = <<>>
    /\ nGestures = 0
    /\ undoFrom = -1
    /\ activeColor = "#ef4444"

\* App.handleStart has shown the arena view for a topic and its infographic;
\* HomeView is unmounted
InArena ==
    /\ currentView = "ARENA"
    /\ topic = <<"d", "u", "e", "t">>
    /\ initialInfographic = <<"data:image/png;base64,", "iVBOR">>
    /\ homeTopic = <<>>
    /\ isLoading = FALSE
    /\ nSessions = 1

Init ==
    /\ InitArena
    /\ InArena
    /\ roundTrip = NoCall
    /\ pcm = NoCall

\* ------------------------------------------------------------------ connection

\* connectToLiveAPI from its call to its first await (getUserMedia), or to its
\* catch when the GoogleGenAI constructor throws e
ConnectToLiveAPI(throws, e) ==
    /\ nAttempts' = nAttempts + 1
    /\ closureMuted' = [closureMuted EXCEPT ![nAttempts + 1] = isMuted]
    /\ IF throws
       THEN /\ errorMessage' = CatchMessage(e)
            /\ connectionState' = "error"
            /\ phase' = [phase EXCEPT ![nAttempts + 1] = "failed"]
            /\ UNCHANGED <<audioContextRef, ctxRef, ctxIn, ctxOut>>
       ELSE /\ connectionState' = "initializing"
            /\ phase' = [phase EXCEPT ![nAttempts + 1] = "awaitMic"]
            /\ audioContextRef' = time
            /\ ctxRef' = nAttempts + 1
            /\ ctxIn' = [ctxIn EXCEPT ![nAttempts + 1] = "running"]
            /\ ctxOut' = [ctxOut EXCEPT ![nAttempts + 1] = "running"]
            /\ UNCHANGED errorMessage

\* the effects of the first commit:
\* useEffect(() => { if (connectionState === 'initializing') connectToLiveAPI(); }, [])
\* useEffect(() => { if (containerRef.current) setViewportSize({...}) }, [])
\* The container is rendered by the main view only, which the first render
\* returns when the state is neither 'initializing' nor 'error'.
Mount(throws, e) ==
    /\ currentView = "ARENA"
    /\ mounted = "pre"
    /\ mounted' = "live"
    /\ viewportSize' = IF MainViewOf(connectionState) THEN ContainerSize ELSE viewportSize
    /\ IF connectionState = "initializing"
       THEN ConnectToLiveAPI(throws, e)
       ELSE UNCHANGED <<nAttempts, closureMuted, errorMessage, connectionState, phase,
                        audioContextRef, ctxRef, ctxIn, ctxOut>>
    /\ UNCHANGED <<isMuted, processorOn, sessionPromiseRef, time, outbox, nFrames,
                   retryClicks, micStream>>
    /\ UNCHANGED <<scale, offset, activeTool, isDragging, dragStart, currentPath, paths,
                   notes, shapes, nGestures, undoFrom, activeColor>>
    /\ UNCHANGED <<schedVars, snapVars, exitVars, clockVars, callVars, appVars, homeVars>>

\* Retry Connection: onClick={() => { setConnectionState('initializing'); connectToLiveAPI(); }}
\* The button is rendered only while connectionState === 'error'.
Retry(throws, e) ==
    /\ mounted = "live"
    /\ connectionState = "error"
    /\ nAttempts < MaxAttempts
    /\ retryClicks' = retryClicks + 1
    /\ ConnectToLiveAPI(throws, e)
    /\ UNCHANGED <<mounted, isMuted, processorOn, sessionPromiseRef, time, outbox, nFrames,
                   micStream>>
    /\ UNCHANGED <<schedVars, snapVars, exitVars, clockVars, callVars, appVars, homeVars, canvasVars>>

\* getUserMedia resolves: the rest of the try block runs, ai.live.connect is
\* called and its promise stored in sessionPromiseRef
MicGranted(a) ==
    /\ phase[a] = "awaitMic"
    /\ phase' = [phase EXCEPT ![a] = "connecting"]
    /\ sessionPromiseRef' = a
    /\ micStream' = [micStream EXCEPT ![a] = "live"]
    /\ UNCHANGED <<mounted, connectionState, errorMessage, isMuted, nAttempts, closureMuted,
                   processorOn, time, audioContextRef, outbox, nFrames, retryClicks,
                   ctxRef, ctxIn, ctxOut>>
    /\ UNCHANGED <<schedVars, snapVars, exitVars, clockVars, callVars, appVars, homeVars, canvasVars>>

\* getUserMedia rejects with e: catch (e)
MicDenied(a, e) ==
    /\ phase[a] = "awaitMic"
    /\ phase' = [phase EXCEPT ![a] = "failed"]
    /\ errorMessage' = CatchMessage(e)
    /\ connectionState' = "error"
    /\ UNCHANGED <<mounted, isMuted, nAttempts, closureMuted, processorOn, sessionPromiseRef,
                   time, audioContextRef, outbox, nFrames, retryClicks>>
    /\ UNCHANGED <<schedVars, snapVars, devVars, exitVars, clockVars, callVars, appVars, homeVars, canvasVars>>

\* callbacks.onopen, and the session promise resolving right after it: the
\* callbacks registered on the promise while it was pending run in the order of
\* their registration, the captures' sendRealtimeInput and, once the arena was
\* left, the cleanup's close
OnOpen(a) ==
    /\ phase[a] = "connecting"
    /\ phase' = [phase EXCEPT ![a] = IF a \in closePending THEN "closing" ELSE "open"]
    /\ connectionState' = "connected"
    /\ processorOn' = processorOn \cup {a}
    /\ outbox' = outbox \o Flush(thenQueue, a, "connected")
    /\ thenQueue' = SelectSeq(thenQueue, LAMBDA q : q.att # a)
    /\ closePending' = closePending \ {a}
    /\ teardownLog' = IF a \in closePending
                      THEN Append(teardownLog, "closeChannel")
                      ELSE teardownLog
    /\ UNCHANGED <<mounted, errorMessage, isMuted, nAttempts, closureMuted, sessionPromiseRef,
                   time, audioContextRef, nFrames, retryClicks, nTicks, captures,
                   exitPhase, sessionData>>
    /\ UNCHANGED <<schedVars, devVars, clockVars, callVars, appVars, homeVars, canvasVars>>

\* an onclose that reconnects by itself
OnCloseReconnect(a) ==
    /\ phase[a] \in {"open", "errored"}
    /\ nAttempts < MaxAttempts
    /\ phase' = [phase EXCEPT ![a] = "closed", ![nAttempts + 1] = "awaitMic"]
    /\ nAttempts' = nAttempts + 1
    /\ closureMuted' = [closureMuted EXCEPT ![nAttempts + 1] = isMuted]
    /\ audioContextRef' = time
    /\ connectionState' = "disconnected"
    /\ UNCHANGED <<mounted, errorMessage, isMuted, processorOn, sessionPromiseRef, time,
                   outbox, nFrames, retryClicks>>
    /\ UNCHANGED <<schedVars, snapVars, devVars, exitVars, clockVars, callVars, appVars, homeVars, canvasVars>>

\* callbacks.onclose: the channel closes, cleanly from open, after its error, or
\* after the cleanup's close
OnClose(a) ==
    /\ phase[a] \in {"open", "errored", "closing"}
    /\ phase' = [phase EXCEPT ![a] = "closed"]
    /\ connectionState' = "disconnected"
    /\ UNCHANGED <<mounted, errorMessage, isMuted, nAttempts, closureMuted, processorOn,
                   sessionPromiseRef, time, audioContextRef, outbox, nFrames, retryClicks>>
    /\ UNCHANGED <<schedVars, snapVars, devVars, exitVars, clockVars, callVars, appVars, homeVars, canvasVars>>

\* callbacks.onerror: the channel fails, while connecting or once open; a failed
\* channel delivers nothing more but its close
OnError(a) ==
    /\ phase[a] \in {"connecting", "open"}
    /\ phase' = [phase EXCEPT ![a] = "errored"]
    /\ errorMessage' = "Connection Error. Please restart."
    /\ connectionState' = "error"
    /\ UNCHANGED <<mounted, isMuted, nAttempts, closureMuted, processorOn,
                   sessionPromiseRef, time, audioContextRef, outbox, nFrames, retryClicks>>
    /\ UNCHANGED <<schedVars, snapVars, devVars, exitVars, clockVars, callVars, appVars, homeVars, canvasVars>>

\* ------------------------------------------------------------------ capture

\* mute button: onClick={() => setIsMuted(!isMuted)}; rendered in the main view only
ToggleMute ==
    /\ mounted = "live"
    /\ connectionState \in {"connected", "disconnected"}
    /\ isMuted' = ~isMuted
    /\ UNCHANGED <<mounted, connectionState, errorMessage, nAttempts, phase, closureMuted,
                   processorOn, sessionPromiseRef, time, audioContextRef, outbox, nFrames,
                   retryClicks>>
    /\ UNCHANGED <<schedVars, snapVars, devVars, exitVars, clockVars, callVars, appVars, homeVars, canvasVars>>

\* a payload put in front of the ones submitted before it
SubmitFirst(box, payload) == <<payload>> \o box

\* sessionPromise.then(session => session.sendRealtimeInput(...)) on a resolved
\* promise: the callbacks run in the order of their registration
Submit(box, payload) == Append(box, payload)

\* processor.onaudioprocess of attempt a: `isMuted` there is the variable of the
\* render whose connectToLiveAPI was invoked.  The processor is wired by onopen;
\* the payload is handed to sendRealtimeInput of that attempt's session.  A
\* closed context delivers no frames.
OnAudioProcess(a) ==
    /\ a \in processorOn
    /\ ctxIn[a] = "running"
    /\ nFrames < MaxFrames
    /\ nFrames' = nFrames + 1
    /\ outbox' = IF closureMuted[a]
                 THEN outbox
                 ELSE Submit(outbox, [mimeType |-> "audio/pcm;rate=16000", att |-> a,
                                      frame |-> nFrames + 1, mutedAtCapture |-> isMuted])
    /\ UNCHANGED <<mounted, connectionState, errorMessage, isMuted, nAttempts, phase,
                   closureMuted, processorOn, sessionPromiseRef, time, audioContextRef,
                   retryClicks>>
    /\ UNCHANGED <<schedVars, snapVars, devVars, exitVars, clockVars, callVars, appVars, homeVars, canvasVars>>

\* ------------------------------------------------------------------ playback

\* the devices' clocks advance
Tick ==
    /\ time < MaxTime
    /\ time' = time + 1
    /\ UNCHANGED <<mounted, isMuted, outbox, nFrames>>
    /\ UNCHANGED <<connVars, schedVars, snapVars, devVars, exitVars, clockVars, callVars, appVars, homeVars, canvasVars>>

\* callbacks.onmessage.  The handler has no await: it runs to its end in one
\* step.  setIsAiSpeaking(true) precedes the decoding; a malformed payload makes
\* the decoding throw, which ends the handler before the clip is created and
\* before the turnComplete and interrupted branches.  A transcript entry's
\* timestamp (Date.now()) is left out.
OnMessage(a, m) ==
    /\ phase[a] = "open"
    /\ nMsgs < MaxMsgs
    /\ LET id == nMsgs + 1
           now == CurrentTime
           threw == m.audio.present /\ ~m.audio.ok
           sched == m.audio.present /\ m.audio.ok
           start == ScheduleStart(nextStartTimeRef, now)
           cursor1 == IF sched THEN AdvanceCursor(start, m.audio.dur) ELSE nextStartTimeRef
           clips1 == IF sched
                     THEN [clips EXCEPT ![id] =
                             [state |-> "scheduled", start |-> start, dur |-> m.audio.dur,
                              epoch |-> audioContextRef, gen |-> lastInterrupt]]
                     ELSE clips
           nodes1 == IF sched THEN sourceNodesRef \cup {id} ELSE sourceNodesRef
           speaking1 == IF m.audio.present THEN TRUE ELSE isAiSpeaking
           turn == TurnComplete(m, threw)
           intr == ~threw /\ m.interrupted
       IN  /\ nMsgs' = id
           /\ transcriptRef' = IF turn
                               THEN Append(transcriptRef, Placeholder)
                               ELSE transcriptRef
           /\ isAiSpeaking' = IF intr THEN FALSE ELSE speaking1
           /\ nextStartTimeRef' = IF intr THEN 0 ELSE cursor1
           /\ clips' = IF intr THEN StopAll(clips1, nodes1) ELSE clips1
           /\ sourceNodesRef' = IF intr THEN ClearNodes(nodes1) ELSE nodes1
           /\ lastInterrupt' = IF intr THEN id ELSE lastInterrupt
           /\ sumDur' = IF intr THEN 0 ELSE IF sched THEN sumDur + m.audio.dur ELSE sumDur
           /\ sumSnap' = IF intr THEN 0
                         ELSE IF sched THEN sumSnap + (start - nextStartTimeRef) ELSE sumSnap
           /\ snapTo' = IF intr THEN 0
                        ELSE IF sched /\ nextStartTimeRef < now THEN now ELSE snapTo
    /\ UNCHANGED <<mounted, isMuted, time, outbox, nFrames>>
    /\ UNCHANGED <<connVars, snapVars, devVars, exitVars, clockVars, callVars, appVars, homeVars, canvasVars>>

\* audioSource.onended of clip c: the clip played to its end, or was stopped
OnEnded(c) ==
    /\ \/ clips[c].state = "scheduled" /\ time - clips[c].epoch >= clips[c].start + clips[c].dur
       \/ clips[c].state = "stopped"
    /\ clips' = [clips EXCEPT ![c].state = IF @ = "scheduled" THEN "ended" ELSE "stoppedEnded"]
    /\ sourceNodesRef' = sourceNodesRef \ {c}
    /\ isAiSpeaking' = IF sourceNodesRef \ {c} = {} THEN FALSE ELSE isAiSpeaking
    /\ UNCHANGED <<nextStartTimeRef, transcriptRef, nMsgs, sumDur, sumSnap, snapTo,
                   lastInterrupt>>
    /\ UNCHANGED <<mounted, isMuted, time, outbox, nFrames>>
    /\ UNCHANGED <<connVars, snapVars, devVars, exitVars, clockVars, callVars, appVars, homeVars, canvasVars>>

\* ------------------------------------------------------------------ snapshot

\* a catch that takes the session down
SnapshotCatchFatal(state) == "error"

\* catch (err) { console.warn("Screen capture failed", err); }
SnapshotCatch(state) == state

\* the callback of setInterval(..., 3000) up to its await.  The effect installs
\* the interval when a render has connectionState === 'connected' and its cleanup
\* clears it when the state changes or the component unmounts.
\* if (!worldRef.current || !sessionPromiseRef.current) return;
SnapshotTick ==
    /\ mounted = "live"
    /\ connectionState = "connected"
    /\ nTicks < MaxTicks
    /\ nTicks' = nTicks + 1
    /\ captures' = [captures EXCEPT ![nTicks + 1] =
                       IF sessionPromiseRef = 0 THEN "skipped" ELSE "rendering"]
    /\ UNCHANGED <<mounted, isMuted, time, outbox, nFrames, thenQueue>>
    /\ UNCHANGED <<connVars, schedVars, devVars, exitVars, clockVars, callVars, appVars, homeVars, canvasVars>>

\* html2canvas resolves and toDataURL returns for the capture of tick k:
\* sessionPromiseRef.current.then(session => session.sendRealtimeInput(...)), with
\* the ref and the connection state as they are now.  On a resolved promise the
\* payload is submitted at once, on a pending one it waits.
CaptureDone(k) ==
    /\ captures[k] = "rendering"
    /\ captures' = [captures EXCEPT ![k] = "done"]
    /\ IF sessionPromiseRef \in processorOn
       THEN /\ outbox' = Append(outbox, ImagePayload(sessionPromiseRef, k, connectionState))
            /\ UNCHANGED thenQueue
       ELSE /\ thenQueue' = Append(thenQueue, [att |-> sessionPromiseRef, tick |-> k])
            /\ UNCHANGED outbox
    /\ UNCHANGED <<mounted, isMuted, time, nFrames, nTicks>>
    /\ UNCHANGED <<connVars, schedVars, devVars, exitVars, clockVars, callVars, appVars, homeVars, canvasVars>>

\* html2canvas rejects or toDataURL throws for the capture of tick k: the catch
CaptureFail(k) ==
    /\ captures[k] = "rendering"
    /\ captures' = [captures EXCEPT ![k] = "failed"]
    /\ connectionState' = SnapshotCatch(connectionState)
    /\ UNCHANGED <<mounted, isMuted, time, outbox, nFrames, nTicks, thenQueue>>
    /\ UNCHANGED <<errorMessage, nAttempts, phase, closureMuted, processorOn,
                   sessionPromiseRef, audioContextRef, retryClicks>>
    /\ UNCHANGED <<schedVars, devVars, exitVars, clockVars, callVars, appVars, homeVars, canvasVars>>

\* ------------------------------------------------------------------ clock and exit

\* consecutive runs of the 1000 ms timer between two other events
ClockRuns == {1, 59, 5999}

\* setElapsedTime(p => p + 1), n times in a row
ClockTicks(n) ==
    /\ mounted = "live"
    /\ nClock < MaxClock
    /\ nClock' = nClock + 1
    /\ elapsedTime' = elapsedTime + n
    /\ UNCHANGED <<mounted, isMuted, time, outbox, nFrames>>
    /\ UNCHANGED <<connVars, schedVars, snapVars, devVars, exitVars, canvasVars, callVars, appVars, homeVars>>

Digits == <<"0", "1", "2", "3", "4", "5", "6", "7", "8", "9">>

\* Number.prototype.toString of a non-negative integer, as its characters
RECURSIVE toString(_)
toString(n) ==
    IF n < 10 THEN <<Digits[n + 1]>>
    ELSE Append(toString(n \div 10), Digits[(n % 10) + 1])

\* String.prototype.padStart with a one-character filler
RECURSIVE PadStart(_, _, _)
PadStart(str, len, ch) == IF Len(str) >= len THEN str ELSE PadStart(<<ch>> \o str, len, ch)

\* formatTime
FormatTime(seconds) ==
    LET mins == seconds \div 60
        secs == seconds % 60
    IN  PadStart(toString(mins), 2, "0") \o <<":">> \o PadStart(toString(secs), 2, "0")

\* the cleanup of the mount effect, run when ArenaView unmounts, followed by the
\* promise callback it registers: s.close() runs in a microtask after the two
\* synchronous context closes when the promise is already resolved, and after
\* onopen when it is still pending.  Only the contexts the refs hold now are
\* closed; no statement stops the MediaStream's tracks.
Cleanup ==
    LET s == sessionPromiseRef
        resolved == s # 0 /\ s \in processorOn
    IN  /\ mounted' = "gone"
        /\ exitPhase' = IF nAttempts = 0 THEN "none" ELSE phase[nAttempts]
        /\ ctxIn' = IF ctxRef # 0 THEN [ctxIn EXCEPT ![ctxRef] = "closed"] ELSE ctxIn
        /\ ctxOut' = IF ctxRef # 0 THEN [ctxOut EXCEPT ![ctxRef] = "closed"] ELSE ctxOut
        /\ closePending' = IF s # 0 /\ ~resolved /\ phase[s] = "connecting"
                           THEN closePending \cup {s}
                           ELSE closePending
        /\ phase' = IF resolved /\ phase[s] = "open"
                    THEN [phase EXCEPT ![s] = "closing"]
                    ELSE phase
        /\ teardownLog' = teardownLog
                            \o (IF ctxRef # 0
                                THEN <<"closeInputContext", "closeOutputContext">>
                                ELSE <<>>)
                            \o (IF resolved THEN <<"closeChannel">> ELSE <<>>)
        /\ UNCHANGED <<connectionState, errorMessage, isMuted, nAttempts, closureMuted,
                       processorOn, sessionPromiseRef, time, audioContextRef, outbox,
                       nFrames, retryClicks, ctxRef, micStream>>
        /\ UNCHANGED <<schedVars, snapVars, clockVars, callVars, homeVars, canvasVars>>

\* End Session, in the control bar of the main view:
\* onEnd({ duration: formatTime(elapsedTime), topic, transcript: transcriptRef.current, images: [] })
\* App.handleEnd stores the data and leaves the arena view, which unmounts ArenaView.
EndSession ==
    /\ mounted = "live"
    /\ MainViewOf(connectionState)
    /\ sessionData' = [ended |-> TRUE, duration |-> FormatTime(elapsedTime),
                       transcript |-> transcriptRef]
    /\ currentView' = "SUMMARY"
    /\ UNCHANGED <<topic, initialInfographic>>
    /\ Cleanup

\* Return to Home, in the error overlay:
\* onEnd({ duration: '0:00', topic, transcript: [], images: [] })
ReturnHome ==
    /\ mounted = "live"
    /\ connectionState = "error"
    /\ sessionData' = [ended |-> TRUE, duration |-> <<"0", ":", "0", "0">>,
                       transcript |-> <<>>]
    /\ currentView' = "SUMMARY"
    /\ UNCHANGED <<topic, initialInfographic>>
    /\ Cleanup

\* ArenaView unmounted with no button of its own pressed
NavigateAway ==
    /\ mounted = "live"
    /\ UNCHANGED sessionData
    /\ UNCHANGED appVars
    /\ Cleanup

\* ------------------------------------------------------------------ canvas

\* the toolbar's tools
Tools == {"cursor", "hand", "pen", "note", "shape"}

\* e.clientX, e.clientY of a mouse event: the container's top left and its middle
ScreenPoints == {[x |-> 0, y |-> 0], [x |-> 400, y |-> 300]}

\* a wheel event: ctrlKey or metaKey, deltaX, deltaY
WheelEvents == [ctrlKey : BOOLEAN, deltaX : {0, 40}, deltaY : {-4500, -300, 300, 4500}]

\* containerRef.current?.getBoundingClientRect(): the container fills the screen
ContainerRect == [left |-> 0, top |-> 0]

\* Math.max(0.1, ...) and Math.min(..., 5), in thousandths
MinScale == 100
MaxScale == 5000

\* a zoom without its upper limit
ClampScaleNoMax(s) == IF s < MinScale THEN MinScale ELSE s

\* Math.min(Math.max(0.1, s), 5)
ClampScale(s) == IF s < MinScale THEN MinScale ELSE IF s > MaxScale THEN MaxScale ELSE s

\* the colour picker's colours (two of them)
Colors == {"#ef4444", "#3b82f6"}

Abs(n) == IF n < 0 THEN -n ELSE n

RECURSIVE GCD(_, _)
GCD(a, b) == IF b = 0 THEN a ELSE GCD(b, a % b)

\* a number, kept exactly as the fraction num / den in lowest terms with den > 0:
\* the arithmetic of the coordinates without the rounding of binary64
Frac(num, den) ==
    LET g == GCD(Abs(num), Abs(den))
        sgn == IF den < 0 THEN -1 ELSE 1
    IN  [num |-> sgn * (num \div g), den |-> sgn * (den \div g)]

FracAdd(a, b) == Frac(a.num * b.den + b.num * a.den, a.den * b.den)
FracSub(a, b) == Frac(a.num * b.den - b.num * a.den, a.den * b.den)
FracMul(a, b) == Frac(a.num * b.num, a.den * b.den)
FracDiv(a, b) == Frac(a.num * b.den, a.den * b.num)

\* the style of the world container, which has no size and sits at the container's
\* top left: translate(cx + offset.x, cy + offset.y) scale(scale), with
\* cx = viewportSize.w / 2; the place on the screen where world point p is drawn
WorldToScreenAt(vs, off, sc, rect, p) ==
    [x |-> FracAdd(Frac(2 * rect.left + vs.w + 2 * off.x, 2), FracMul(Frac(sc, 1000), p.x)),
     y |-> FracAdd(Frac(2 * rect.top + vs.h + 2 * off.y, 2), FracMul(Frac(sc, 1000), p.y))]

\* a screenToWorld that subtracts the offset after dividing by the scale
ScreenToWorldAtOffsetLast(vs, off, sc, rect, s) ==
    [x |-> FracSub(FracDiv(FracSub(FracSub(s.x, Frac(rect.left, 1)), Frac(vs.w, 2)),
                           Frac(sc, 1000)), Frac(off.x, 1)),
     y |-> FracSub(FracDiv(FracSub(FracSub(s.y, Frac(rect.top, 1)), Frac(vs.h, 2)),
                           Frac(sc, 1000)), Frac(off.y, 1))]

\* screenToWorld for a viewport size, an offset, a scale in thousandths and a
\* container rectangle: (screen - rect - viewportSize / 2 - offset) / scale on each axis
ScreenToWorldAt(vs, off, sc, rect, s) ==
    [x |-> FracDiv(FracSub(FracSub(FracSub(s.x, Frac(rect.left, 1)), Frac(vs.w, 2)),
                           Frac(off.x, 1)), Frac(sc, 1000)),
     y |-> FracDiv(FracSub(FracSub(FracSub(s.y, Frac(rect.top, 1)), Frac(vs.h, 2)),
                           Frac(off.y, 1)), Frac(sc, 1000))]

\* screenToWorld(e.clientX, e.clientY) in the current render
ScreenToWorld(screenX, screenY) ==
    ScreenToWorldAt(viewportSize, offset, scale, ContainerRect,
                    [x |-> Frac(screenX, 1), y |-> Frac(screenY, 1)])

\* a slice that drops the first element instead of the last
SliceFromOne(s, start, end) == SubSeq(s, 2, Len(s))

\* Array.prototype.slice(start, end) for start >= 0; a negative end counts from
\* the end of the array
Slice(s, start, end) ==
    LET e == IF end < 0
             THEN (IF Len(s) + end < 0 THEN 0 ELSE Len(s) + end)
             ELSE (IF end > Len(s) THEN Len(s) ELSE end)
    IN  SubSeq(s, start + 1, e)

\* the canvas and the toolbar are rendered by the main view
CanvasShown == mounted = "live" /\ MainViewOf(connectionState)

\* toolbar button: setTool(t.id)
SetTool(t) ==
    /\ CanvasShown
    /\ nGestures < MaxGestures
    /\ nGestures' = nGestures + 1
    /\ activeTool' = t
    /\ UNCHANGED <<viewportSize, scale, offset, isDragging, dragStart, currentPath, paths,
                   notes, shapes, undoFrom, activeColor>>
    /\ UNCHANGED <<mounted, isMuted, time, outbox, nFrames>>
    /\ UNCHANGED <<connVars, schedVars, snapVars, devVars, exitVars, clockVars, callVars, appVars, homeVars>>

\* colour picker: setColor(c)
SetColor(c) ==
    /\ CanvasShown
    /\ nGestures < MaxGestures
    /\ nGestures' = nGestures + 1
    /\ activeColor' = c
    /\ UNCHANGED <<viewportSize, scale, offset, activeTool, isDragging, dragStart, currentPath,
                   paths, notes, shapes, undoFrom>>
    /\ UNCHANGED <<mounted, isMuted, time, outbox, nFrames>>
    /\ UNCHANGED <<connVars, schedVars, snapVars, devVars, exitVars, clockVars, callVars, appVars, homeVars>>

\* a pan along the scroll
PanWithScroll(prev, e) == [x |-> prev.x + e.deltaX, y |-> prev.y + e.deltaY]

\* setOffset(prev => ({ x: prev.x - e.deltaX, y: prev.y - e.deltaY }))
Pan(prev, e) == [x |-> prev.x - e.deltaX, y |-> prev.y - e.deltaY]

\* handleWheel
HandleWheel(e) ==
    /\ CanvasShown
    /\ nGestures < MaxWheel
    /\ nGestures' = nGestures + 1
    /\ IF e.ctrlKey
       THEN /\ scale' = ClampScale(scale - e.deltaY)
            /\ UNCHANGED offset
       ELSE /\ offset' = Pan(offset, e)
            /\ UNCHANGED scale
    /\ UNCHANGED <<viewportSize, activeTool, isDragging, dragStart, currentPath, paths,
                   notes, shapes, undoFrom, activeColor>>
    /\ UNCHANGED <<mounted, isMuted, time, outbox, nFrames>>
    /\ UNCHANGED <<connVars, schedVars, snapVars, devVars, exitVars, clockVars, callVars, appVars, homeVars>>

\* { x: worldPos.x, y: worldPos.y, text: '' }
NewNote(worldPos) == [x |-> worldPos.x, y |-> worldPos.y, text |-> ""]

\* a shape whose record is at the click
NewShapeAtClick(worldPos, c) == [x |-> worldPos.x, y |-> worldPos.y, color |-> c]

\* { x: worldPos.x - 50, y: worldPos.y - 50, color: activeColor }
NewShape(worldPos, c) ==
    [x |-> FracSub(worldPos.x, Frac(50, 1)), y |-> FracSub(worldPos.y, Frac(50, 1)), color |-> c]

\* handleMouseDown
HandleMouseDown(p) ==
    /\ CanvasShown
    /\ nGestures < MaxGestures
    /\ nGestures' = nGestures + 1
    /\ LET worldPos == ScreenToWorld(p.x, p.y)
       IN  /\ isDragging' = IF activeTool \in {"hand", "pen"} THEN TRUE ELSE isDragging
           /\ dragStart' = IF activeTool = "hand" THEN p ELSE dragStart
           /\ currentPath' = IF activeTool = "pen" THEN <<worldPos>> ELSE currentPath
           /\ notes' = IF activeTool = "note"
                       THEN Append(notes, NewNote(worldPos))
                       ELSE notes
           /\ shapes' = IF activeTool = "shape"
                        THEN Append(shapes, NewShape(worldPos, activeColor))
                        ELSE shapes
           /\ activeTool' = IF activeTool \in {"note", "shape"} THEN "cursor" ELSE activeTool
    /\ UNCHANGED <<viewportSize, scale, offset, paths, undoFrom, activeColor>>
    /\ UNCHANGED <<mounted, isMuted, time, outbox, nFrames>>
    /\ UNCHANGED <<connVars, schedVars, snapVars, devVars, exitVars, clockVars, callVars, appVars, homeVars>>

\* a drag whose displacement is taken in world units
DragInWorld(prev, p, start) ==
    [x |-> prev.x + ((p.x - start.x) * 1000) \div scale,
     y |-> prev.y + ((p.y - start.y) * 1000) \div scale]

\* setOffset(prev => ({ x: prev.x + dx, y: prev.y + dy })) with
\* dx = e.clientX - dragStart.x, dy = e.clientY - dragStart.y
Drag(prev, p, start) == [x |-> prev.x + (p.x - start.x), y |-> prev.y + (p.y - start.y)]

\* handleMouseMove
HandleMouseMove(p) ==
    /\ CanvasShown
    /\ nGestures < MaxGestures
    /\ nGestures' = nGestures + 1
    /\ offset' = IF isDragging /\ activeTool = "hand"
                 THEN Drag(offset, p, dragStart)
                 ELSE offset
    /\ dragStart' = IF isDragging /\ activeTool = "hand" THEN p ELSE dragStart
    /\ currentPath' = IF isDragging /\ activeTool = "pen"
                      THEN Append(currentPath, ScreenToWorld(p.x, p.y))
                      ELSE currentPath
    /\ UNCHANGED <<viewportSize, scale, activeTool, isDragging, paths, notes, shapes, undoFrom,
                   activeColor>>
    /\ UNCHANGED <<mounted, isMuted, time, outbox, nFrames>>
    /\ UNCHANGED <<connVars, schedVars, snapVars, devVars, exitVars, clockVars, callVars, appVars, homeVars>>

\* a committed path that takes the place of the last one
CommitOverLast(prev, path) ==
    IF prev = <<>> THEN <<path>> ELSE [prev EXCEPT ![Len(prev)] = path]

\* setPaths(prev => [...prev, path])
Commit(prev, path) == Append(prev, path)

\* a release that commits whatever the in-progress path is
ReleaseCommitsAlways(tool, path) == tool = "pen"

\* activeTool === 'pen' && currentPath: the empty string is falsy
ReleaseCommits(tool, path) == tool = "pen" /\ path # <<>>

\* handleMouseUp, also the container's onMouseLeave
HandleMouseUp ==
    /\ CanvasShown
    /\ nGestures < MaxGestures
    /\ nGestures' = nGestures + 1
    /\ isDragging' = FALSE
    /\ IF ReleaseCommits(activeTool, currentPath)
       THEN /\ paths' = Commit(paths, [d |-> currentPath, color |-> activeColor, width |-> 3])
            /\ currentPath' = <<>>
       ELSE UNCHANGED <<paths, currentPath>>
    /\ UNCHANGED <<viewportSize, scale, offset, activeTool, dragStart, notes, shapes, undoFrom,
                   activeColor>>
    /\ UNCHANGED <<mounted, isMuted, time, outbox, nFrames>>
    /\ UNCHANGED <<connVars, schedVars, snapVars, devVars, exitVars, clockVars, callVars, appVars, homeVars>>

\* toolbar undo: setPaths(p => p.slice(0, -1))
Undo ==
    /\ CanvasShown
    /\ nGestures < MaxGestures
    /\ nGestures' = nGestures + 1
    /\ undoFrom' = Len(paths)
    /\ paths' = Slice(paths, 0, -1)
    /\ UNCHANGED <<viewportSize, scale, offset, activeTool, isDragging, dragStart,
                   currentPath, notes, shapes, activeColor>>
    /\ UNCHANGED <<mounted, isMuted, time, outbox, nFrames>>
    /\ UNCHANGED <<connVars, schedVars, snapVars, devVars, exitVars, clockVars, callVars, appVars, homeVars>>

\* ------------------------------------------------------------------ the application
\* what the user can have typed in the topic field, as characters
TopicInputs == {<<>>, <<" ">>, <<"d">>, <<" ", "d", " ">>}

\* String.prototype.trim
RECURSIVE TrimStart(_)
TrimStart(str) == IF str # <<>> /\ Head(str) = " " THEN TrimStart(Tail(str)) ELSE str
RECURSIVE TrimEnd(_)
TrimEnd(str) ==
    IF str # <<>> /\ str[Len(str)] = " " THEN TrimEnd(SubSeq(str, 1, Len(str) - 1)) ELSE str
Trim(str) == TrimEnd(TrimStart(str))

\* the parts of a response: text, or inline data that may be empty
TextPart == [inlineData |-> FALSE, data |-> ""]
Parts == {TextPart, [inlineData |-> TRUE, data |-> "iVBOR"], [inlineData |-> TRUE, data |-> ""]}

\* what generateContent can settle with: a rejection, a response without
\* candidates, or a response with up to MaxParts parts
MaxParts == 2
Responses ==
    {[rejected |-> TRUE, candidates |-> FALSE, parts |-> <<>>],
     [rejected |-> FALSE, candidates |-> FALSE, parts |-> <<>>]}
        \cup {[rejected |-> FALSE, candidates |-> TRUE, parts |-> ps] :
                 ps \in UNION {[1..n -> Parts] : n \in 0..MaxParts}}

\* the loop over response.candidates[0].content.parts: the URL made of the first
\* part with inline data, '' if there is none
RECURSIVE ImageUrl(_)
ImageUrl(parts) ==
    IF parts = <<>> THEN <<>>
    ELSE IF Head(parts).inlineData
         THEN <<"data:image/png;base64,", Head(parts).data>>
         ELSE ImageUrl(Tail(parts))

\* a generation that starts a session whatever it returned
GenerationFailedNever(r) == FALSE

\* the await rejects, or imageUrl is '' and "No image generated" is thrown
GenerationFailed(r) == r.rejected \/ ~r.candidates \/ ImageUrl(r.parts) = <<>>

\* a new ArenaView instance: every useState and useRef at its initial value
ConstructArenaView ==
    /\ mounted' = "pre"
    /\ connectionState' = "initializing"
    /\ errorMessage' = ""
    /\ isAiSpeaking' = FALSE
    /\ isMuted' = FALSE
    /\ nAttempts' = 0
    /\ phase' = [a \in Attempts |-> "none"]
    /\ closureMuted' = [a \in Attempts |-> FALSE]
    /\ processorOn' = {}
    /\ sessionPromiseRef' = 0
    /\ time' = 0
    /\ audioContextRef' = -1
    /\ nextStartTimeRef' = 0
    /\ clips' = [i \in MsgIds |-> NoClip]
    /\ sourceNodesRef' = {}
    /\ transcriptRef' = <<>>
    /\ outbox' = <<>>
    /\ nMsgs' = 0
    /\ nFrames' = 0
    /\ retryClicks' = 0
    /\ sumDur' = 0
    /\ sumSnap' = 0
    /\ snapTo' = 0
    /\ lastInterrupt' = 0
    /\ nTicks' = 0
    /\ captures' = [k \in TickIds |-> "none"]
    /\ thenQueue' = <<>>
    /\ ctxRef' = 0
    /\ ctxIn' = [a \in Attempts |-> "none"]
    /\ ctxOut' = [a \in Attempts |-> "none"]
    /\ micStream' = [a \in Attempts |-> "none"]
    /\ closePending' = {}
    /\ teardownLog' = <<>>
    /\ exitPhase' = "none"
    /\ elapsedTime' = 0
    /\ nClock' = 0
    /\ viewportSize' = [w |-> 0, h |-> 0]
    /\ scale' = InitialScale
    /\ offset' = [x |-> 0, y |-> 0]
    /\ activeTool' = "hand"
    /\ isDragging' = FALSE
    /\ dragStart' = [x |-> 0, y |-> 0]
    /\ currentPath' = <<>>
    /\ paths' = <<>>
    /\ notes' = <<>>
    /\ shapes' = <<>>
    /\ nGestures' = 0
    /\ undoFrom' = -1
    /\ activeColor' = "#ef4444"

\* the topic field: setTopic(e.target.value)
SetTopic(t) ==
    /\ currentView = "HOME"
    /\ ~isLoading
    /\ homeTopic' = t
    /\ UNCHANGED <<arenaVars, callVars, appVars, isLoading, nSessions>>

\* handleStartInteraction up to its await, from the button or the Enter key
HandleStartInteraction ==
    /\ currentView = "HOME"
    /\ ~isLoading
    /\ Trim(homeTopic) # <<>>
    /\ nSessions < MaxSessions
    /\ isLoading' = TRUE
    /\ UNCHANGED <<arenaVars, callVars, appVars, homeTopic, nSessions>>

\* handleStartInteraction after its await.  A failure is caught: setIsLoading(false).
\* Otherwise onStart(topic, imageUrl), App.handleStart: the arena view replaces
\* the home view, HomeView is unmounted and an ArenaView is constructed.
GenerateContentSettled(r) ==
    /\ currentView = "HOME"
    /\ isLoading
    /\ isLoading' = FALSE
    /\ IF GenerationFailed(r)
       THEN UNCHANGED <<arenaVars, appVars, homeTopic, nSessions>>
       ELSE /\ topic' = homeTopic
            /\ initialInfographic' = ImageUrl(r.parts)
            /\ currentView' = "ARENA"
            /\ homeTopic' = <<>>
            /\ nSessions' = nSessions + 1
            /\ ConstructArenaView
            /\ UNCHANGED sessionData
    /\ UNCHANGED callVars

\* SummaryView's restart button, App.handleRestart
HandleRestart ==
    /\ currentView = "SUMMARY"
    /\ sessionData # NoResult
    /\ topic' = <<>>
    /\ initialInfographic' = <<>>
    /\ sessionData' = NoResult
    /\ currentView' = "HOME"
    /\ UNCHANGED <<mounted, connectionState, errorMessage, isAiSpeaking, isMuted, nAttempts,
                   phase, closureMuted, processorOn, sessionPromiseRef, time, audioContextRef,
                   nextStartTimeRef, clips, sourceNodesRef, transcriptRef, outbox, nMsgs,
                   nFrames, retryClicks, sumDur, sumSnap, snapTo, lastInterrupt,
                   snapVars, devVars, closePending, teardownLog, exitPhase,
                   clockVars, canvasVars>>
    /\ UNCHANGED <<callVars, homeVars>>

InitApp ==
    /\ InitArena
    /\ currentView = "HOME"
    /\ topic = <<>>
    /\ initialInfographic = <<>>
    /\ homeTopic = <<>>
    /\ isLoading = FALSE
    /\ nSessions = 0
    /\ roundTrip = NoCall
    /\ pcm = NoCall

\* ------------------------------------------------------------------ the mapping alone
\* viewport sizes, offsets, scales (in thousandths, with both ends of the allowed
\* range) and world points of a call
ViewportSizes == {[w |-> 0, h |-> 0], ContainerSize, [w |-> 1025, h |-> 769]}
Offsets == {[x |-> 0, y |-> 0], [x |-> -35, y |-> 120], [x |-> 4500, y |-> -13500]}
Scales == {MinScale, 333, InitialScale, 1210, MaxScale}
WorldPoints == {[x |-> Frac(0, 1), y |-> Frac(0, 1)],
                [x |-> Frac(-7, 3), y |-> Frac(250, 1)],
                [x |-> Frac(1499, 1), y |-> Frac(-1500, 1)],
                [x |-> Frac(1, 8), y |-> Frac(-123, 4)]}
RoundTripArgs == [vs : ViewportSizes, off : Offsets, sc : Scales, p : WorldPoints]

InitTransform ==
    /\ InitArena
    /\ InArena
    /\ roundTrip \in {[called |-> FALSE, args |-> i] : i \in RoundTripArgs}
    /\ pcm = NoCall

\* screenToWorld applied to the place where the transform draws world point p
ScreenToWorldOfRendered ==
    /\ ~roundTrip.called
    /\ "args" \in DOMAIN roundTrip
    /\ LET i == roundTrip.args
           screen == WorldToScreenAt(i.vs, i.off, i.sc, ContainerRect, i.p)
       IN  roundTrip' = [called |-> TRUE, args |-> i, screen |-> screen,
                         world |-> ScreenToWorldAt(i.vs, i.off, i.sc, ContainerRect, screen)]
    /\ UNCHANGED <<arenaVars, pcm, appVars, homeVars>>

\* ------------------------------------------------------------------ the conversion alone
\* an element of a Float32Array: a number (kept exactly), NaN or an infinity
Num(n, d) == [kind |-> "finite", q |-> Frac(n, d)]
NaN == [kind |-> "nan", q |-> Frac(0, 1)]
Infinity == [kind |-> "inf", q |-> Frac(1, 1)]
NegInfinity == [kind |-> "-inf", q |-> Frac(-1, 1)]

\* a < b on numbers; every comparison with NaN is false
Less(a, b) ==
    /\ a.kind # "nan" /\ b.kind # "nan"
    /\ \/ a.kind = "-inf" /\ b.kind # "-inf"
       \/ a.kind # "inf" /\ b.kind = "inf"
       \/ a.kind = "finite" /\ b.kind = "finite" /\ a.q.num * b.q.den < b.q.num * a.q.den

\* Math.min and Math.max of two numbers: NaN if either is NaN
MathMin(a, b) == IF a.kind = "nan" \/ b.kind = "nan" THEN NaN ELSE IF Less(b, a) THEN b ELSE a
MathMax(a, b) == IF a.kind = "nan" \/ b.kind = "nan" THEN NaN ELSE IF Less(a, b) THEN b ELSE a

\* a sample taken as it is
Unclamped(x) == x

\* Math.max(-1, Math.min(1, x))
Clamp(x) == MathMax(Num(-1, 1), MathMin(Num(1, 1), x))

\* s * k for a whole number k > 0: exact in binary64 for an element of a Float32Array
Times(s, k) == IF s.kind = "finite" THEN Num(s.q.num * k, s.q.den) ELSE s

\* the conversion of DataView.setInt16 to a whole number of 16 bits: NaN and the
\* infinities give 0, a number is cut towards zero and wraps modulo 2^16
ToInt16(v) ==
    IF v.kind # "finite" THEN 0
    ELSE LET t == IF v.q.num < 0 THEN -((-v.q.num) \div v.q.den) ELSE v.q.num \div v.q.den
         IN  ((t + 32768) % 65536) - 32768

\* the two bytes that setInt16(offset, v, true) writes, low byte first
SetInt16(v) ==
    LET u == ToInt16(v) % 65536
    IN  <<u % 256, u \div 256>>

\* DataView.getInt16(offset, true) on two bytes
GetInt16(lo, hi) ==
    LET u == hi * 256 + lo
    IN  IF u >= 32768 THEN u - 65536 ELSE u

\* floatTo16BitPCM: the bytes of the returned buffer
FloatTo16BitPCM(float32Array) ==
    [j \in 1..(2 * Len(float32Array)) |->
        LET s == Clamp(float32Array[(j + 1) \div 2])
            bytes == SetInt16(IF Less(s, Num(0, 1)) THEN Times(s, 32768) ELSE Times(s, 32767))
        IN  bytes[2 - (j % 2)]]

\* the samples of a call and the buffers made of them
MaxSamples == 2
Samples == {NaN, Infinity, NegInfinity, Num(-2, 1), Num(-3, 2), Num(-1, 1), Num(-1, 2),
            Num(-1, 32768), Num(0, 1), Num(1, 32768), Num(1, 2), Num(32767, 32768),
            Num(1, 1), Num(3, 2), Num(2, 1)}
SampleBuffers == UNION {[1..n -> Samples] : n \in 0..MaxSamples}

InitConversion ==
    /\ InitArena
    /\ InArena
    /\ roundTrip = NoCall
    /\ pcm \in {[called |-> FALSE, float32Array |-> b] : b \in SampleBuffers}

\* const pcmData = floatTo16BitPCM(inputData)
FloatTo16BitPCMCall ==
    /\ ~pcm.called
    /\ "float32Array" \in DOMAIN pcm
    /\ pcm' = [called |-> TRUE, float32Array |-> pcm.float32Array,
               buffer |-> FloatTo16BitPCM(pcm.float32Array)]
    /\ UNCHANGED <<arenaVars, roundTrip, appVars, homeVars>>

\* ------------------------------------------------------------------ specification
ConnectionNext ==
    \/ \E t \in BOOLEAN, e \in Thrown : Mount(t, e)
    \/ \E t \in BOOLEAN, e \in Thrown : Retry(t, e)
    \/ \E a \in Attempts : MicGranted(a)
    \/ \E a \in Attempts, e \in Thrown : MicDenied(a, e)
    \/ \E a \in Attempts : OnOpen(a)
    \/ \E a \in Attempts : OnClose(a)
    \/ \E a \in Attempts : OnError(a)

\* the session and its capture path: connection events, mute, microphone frames
SessionNext ==
    \/ ConnectionNext
    \/ ToggleMute
    \/ \E a \in Attempts : OnAudioProcess(a)

SpecSession == Init /\ [][SessionNext]_vars

\* the playback scheduler on one connection: the steps that open the channel,
\* inbound messages, the device clock and the clips' ended callbacks.  The
\* other connection events write no variable the scheduler reads, except a
\* retry, which replaces the output context: PlaybackRetryNext adds it.
PlaybackNext ==
    \/ Mount(FALSE, "")
    \/ \E a \in Attempts : MicGranted(a)
    \/ \E a \in Attempts : OnOpen(a)
    \/ Tick
    \/ \E a \in Attempts, m \in Messages : OnMessage(a, m)
    \/ \E c \in MsgIds : OnEnded(c)

SpecPlayback == Init /\ [][PlaybackNext]_vars

\* the playback scheduler across a failed channel and a retry
PlaybackRetryNext ==
    \/ PlaybackNext
    \/ \E a \in Attempts : OnError(a)
    \/ Retry(FALSE, "")

SpecPlaybackRetry == Init /\ [][PlaybackRetryNext]_vars

\* the snapshot transmitter on one connection, beside the channel's events and
\* the microphone frames
SnapshotNext ==
    \/ Mount(FALSE, "")
    \/ \E a \in Attempts : MicGranted(a)
    \/ \E a \in Attempts : OnOpen(a)
    \/ \E a \in Attempts : OnClose(a)
    \/ \E a \in Attempts : OnError(a)
    \/ \E a \in Attempts : OnAudioProcess(a)
    \/ SnapshotTick
    \/ \E k \in TickIds : CaptureDone(k)
    \/ \E k \in TickIds : CaptureFail(k)

SpecSnapshot == Init /\ [][SnapshotNext]_vars

\* the snapshot transmitter across a failed channel and a retry, where a capture
\* can complete while the next session promise is pending
SnapshotRetryNext ==
    \/ Mount(FALSE, "")
    \/ Retry(FALSE, "")
    \/ \E a \in Attempts : MicGranted(a)
    \/ \E a \in Attempts : OnOpen(a)
    \/ \E a \in Attempts : OnClose(a)
    \/ \E a \in Attempts : OnError(a)
    \/ SnapshotTick
    \/ \E k \in TickIds : CaptureDone(k)
    \/ \E k \in TickIds : CaptureFail(k)

SpecSnapshotRetry == Init /\ [][SnapshotRetryNext]_vars

\* leaving the arena: every connection event, before and after the exit
TeardownNext ==
    \/ ConnectionNext
    \/ EndSession
    \/ ReturnHome
    \/ NavigateAway

SpecTeardown == Init /\ [][TeardownNext]_vars

\* the session result: one connection with its inbound messages and its error,
\* the elapsed-time clock, and the two buttons that call onEnd
ResultNext ==
    \/ Mount(FALSE, "")
    \/ \E a \in Attempts : MicGranted(a)
    \/ \E a \in Attempts : OnOpen(a)
    \/ \E a \in Attempts : OnError(a)
    \/ \E a \in Attempts, m \in Messages : OnMessage(a, m)
    \/ \E n \in ClockRuns : ClockTicks(n)
    \/ EndSession
    \/ ReturnHome

SpecResult == Init /\ [][ResultNext]_vars

\* drawing on the canvas of a connected session: tools, mouse gestures and undo
CanvasNext ==
    \/ Mount(FALSE, "")
    \/ \E a \in Attempts : MicGranted(a)
    \/ \E a \in Attempts : OnOpen(a)
    \/ \E t \in Tools : SetTool(t)
    \/ \E p \in ScreenPoints : HandleMouseDown(p)
    \/ \E p \in ScreenPoints : HandleMouseMove(p)
    \/ HandleMouseUp
    \/ Undo

SpecCanvas == Init /\ [][CanvasNext]_vars

\* a zoom and a pan
SomeWheelEvents == {[ctrlKey |-> TRUE, deltaX |-> 0, deltaY |-> -300],
                    [ctrlKey |-> FALSE, deltaX |-> 40, deltaY |-> 300]}

\* every event that can reach a drawing: pen strokes and undo beside the wheel,
\* the colour picker, the hand tool and the channel's closing
DrawingNext ==
    \/ Mount(FALSE, "")
    \/ \E a \in Attempts : MicGranted(a)
    \/ \E a \in Attempts : OnOpen(a)
    \/ \E a \in Attempts : OnClose(a)
    \/ \E t \in {"pen", "hand"} : SetTool(t)
    \/ \E c \in Colors : SetColor(c)
    \/ \E e \in SomeWheelEvents : HandleWheel(e)
    \/ HandleMouseDown([x |-> 400, y |-> 300])
    \/ HandleMouseMove([x |-> 0, y |-> 0])
    \/ HandleMouseUp
    \/ Undo

SpecDrawing == Init /\ [][DrawingNext]_vars

\* the viewport of a connected session under wheel events
ViewportNext ==
    \/ Mount(FALSE, "")
    \/ \E a \in Attempts : MicGranted(a)
    \/ \E a \in Attempts : OnOpen(a)
    \/ \E e \in WheelEvents : HandleWheel(e)

SpecViewport == Init /\ [][ViewportNext]_vars

\* the inbound messages that carry no audio
SignalMessages == {m \in Messages : ~m.audio.present}

\* what is sent on one connection: microphone frames and snapshots, beside
\* inbound messages (those without audio: no step of the playback scheduler
\* writes what is sent)
OutboundNext ==
    \/ Mount(FALSE, "")
    \/ \E a \in Attempts : MicGranted(a)
    \/ \E a \in Attempts : OnOpen(a)
    \/ \E a \in Attempts : OnAudioProcess(a)
    \/ SnapshotTick
    \/ \E k \in TickIds : CaptureDone(k)
    \/ \E a \in Attempts, m \in SignalMessages : OnMessage(a, m)

SpecOutbound == Init /\ [][OutboundNext]_vars

\* the application's views: the home view and its generation, the arena up to
\* its two exits, the summary and its restart
AppNext ==
    \/ \E t \in TopicInputs : SetTopic(t)
    \/ HandleStartInteraction
    \/ \E r \in Responses : GenerateContentSettled(r)
    \/ \E t \in BOOLEAN, e \in Thrown : Mount(t, e)
    \/ \E a \in Attempts : MicGranted(a)
    \/ \E a \in Attempts : OnOpen(a)
    \/ \E a \in Attempts, e \in Thrown : MicDenied(a, e)
    \/ \E a \in Attempts : OnError(a)
    \/ EndSession
    \/ ReturnHome
    \/ HandleRestart

SpecApp == InitApp /\ [][AppNext]_vars

TransformNext ==
    \/ ScreenToWorldOfRendered

SpecTransform == InitTransform /\ [][TransformNext]_vars

ConversionNext ==
    \/ FloatTo16BitPCMCall

SpecConversion == InitConversion /\ [][ConversionNext]_vars

\* ------------------------------------------------------------------ properties

Max(x, y) == IF x >= y THEN x ELSE y

\* the messages that scheduled a clip
Scheduled == {c \in MsgIds : clips[c].state # "none"}

ClipEnd(c) == clips[c].start + clips[c].dur

\* i and j were scheduled one after the other, with no clip and no interruption
\* between them
Consecutive(i, j) ==
    /\ i \in Scheduled /\ j \in Scheduled /\ i < j
    /\ \A k \in Scheduled : ~(i < k /\ k < j)
    /\ clips[i].gen = clips[j].gen

\* C1: no payload is ever submitted for a microphone frame that was delivered
\* while the muted flag was true.
C1_MuteInvariant == \A i \in 1..Len(outbox) : ~outbox[i].mutedAtCapture

\* C2: once a message carrying the interruption signal has been handled, the live
\* clip set is empty, every clip that was in it is stopped, the speaking signal is
\* false and the playback cursor is 0.
C2_InterruptionClears ==
    [][\A a \in Attempts, m \in Messages :
          (m.interrupted /\ OnMessage(a, m)) =>
              /\ sourceNodesRef' = {}
              /\ \A c \in sourceNodesRef : clips'[c].state = "stopped"
              /\ \A c \in MsgIds : clips'[c].state # "scheduled"
              /\ ~isAiSpeaking'
              /\ nextStartTimeRef' = 0]_vars

\* C3: the cursor always equals the durations scheduled since the last reset plus
\* the total underrun snap-forward, which is never negative, and no step other
\* than an interruption lowers it.
C3_CursorMonotone ==
    [][/\ nextStartTimeRef' = sumDur' + sumSnap'
       /\ sumSnap' >= 0
       /\ (lastInterrupt' = lastInterrupt =>
              /\ nextStartTimeRef' >= nextStartTimeRef
              /\ sumSnap' >= sumSnap)]_vars

\* C3 witness: two clips scheduled since the last reset, one of them after an
\* underrun snap.
C3_Witness ==
    /\ sumSnap > 0
    /\ Cardinality({c \in Scheduled : clips[c].gen = lastInterrupt /\ c > lastInterrupt}) >= 2
    /\ nextStartTimeRef = sumDur + sumSnap

\* C4: every clip starts at max(cursor, now), the cursor then is that start plus
\* the duration, and of two clips scheduled consecutively the later starts no
\* earlier than the earlier ends, and exactly there when it met no underrun.
C4_ScheduleAtMax ==
    [][(nMsgs' = nMsgs + 1 /\ clips'[nMsgs'].state # "none") =>
          LET new == clips'[nMsgs']
              before == {c \in Scheduled : c > lastInterrupt}
          IN  /\ new.start = Max(nextStartTimeRef, CurrentTime)
              /\ lastInterrupt' = lastInterrupt => nextStartTimeRef' = new.start + new.dur
              /\ \A i \in before :
                    (\A k \in before : k <= i) =>
                        /\ new.start >= ClipEnd(i)
                        /\ (CurrentTime <= nextStartTimeRef => new.start = ClipEnd(i))]_vars

\* C4 witness: three clips in a row, one scheduled after a gap left by an
\* underrun and one back-to-back with its predecessor.
C4_Witness ==
    \E i, j, k \in MsgIds :
        /\ Consecutive(i, j) /\ Consecutive(j, k)
        /\ \/ clips[j].start > ClipEnd(i) /\ clips[k].start = ClipEnd(j)
           \/ clips[j].start = ClipEnd(i) /\ clips[k].start > ClipEnd(j)

\* C5 as stated: the cursor never exceeds the durations scheduled since the
\* last reset.
C5_CursorWithinDurations == nextStartTimeRef <= sumDur

\* C5, amended: the cursor never exceeds the durations scheduled since the last
\* reset plus the device time of the latest underrun snap since that reset.
C5_CursorWithinSnapAndDurations == nextStartTimeRef <= snapTo + sumDur

\* C5 witness: after an underrun snap the cursor is past the durations scheduled.
C5_Witness == snapTo > 0 /\ sumDur > 0 /\ nextStartTimeRef > sumDur

\* C6: the speaking signal is asserted exactly when the live clip set is
\* non-empty.
C6_SpeakingIffLive == isAiSpeaking <=> sourceNodesRef # {}

\* C7: an interruption cancels as one step: every clip scheduled up to the
\* interrupting message is stopped or over and out of the live set, and every
\* clip scheduled after it is untouched by it, live until it ends by itself.
C7_InterruptionSynchronous ==
    \A c \in Scheduled :
        IF c <= lastInterrupt
        THEN clips[c].state \in {"stopped", "stoppedEnded", "ended"} /\ c \notin sourceNodesRef
        ELSE /\ clips[c].state \in {"scheduled", "ended"}
             /\ (clips[c].state = "scheduled" <=> c \in sourceNodesRef)

\* C7 witness: a clip cancelled before it began to play, and a clip scheduled
\* after that interruption still live.
C7_Witness ==
    \E c, d \in Scheduled :
        /\ c <= lastInterrupt /\ lastInterrupt < d
        /\ clips[c].state = "stopped" /\ clips[c].start > time - clips[c].epoch
        /\ clips[d].state = "scheduled" /\ d \in sourceNodesRef

\* C8: the connection state changes only from Initializing to Connected on
\* on-open, from Connected to Disconnected on on-close, from Connected to Error on
\* on-error, from Initializing to Error on an establishment failure, and from
\* Error to Initializing on a retry.
C8_Transitions ==
    [][connectionState' # connectionState =>
          \/ /\ connectionState = "initializing" /\ connectionState' = "connected"
             /\ \E a \in Attempts : OnOpen(a)
          \/ /\ connectionState = "connected" /\ connectionState' = "disconnected"
             /\ \E a \in Attempts : OnClose(a)
          \/ /\ connectionState = "connected" /\ connectionState' = "error"
             /\ \E a \in Attempts : OnError(a)
          \/ /\ connectionState = "initializing" /\ connectionState' = "error"
             /\ \/ \E a \in Attempts : OnError(a)
                \/ \E a \in Attempts, e \in Thrown : MicDenied(a, e)
                \/ \E e \in Thrown : Mount(TRUE, e)
          \/ /\ connectionState = "error" /\ connectionState' = "initializing"
             /\ \E e \in Thrown : Retry(FALSE, e)]_vars

\* C9: connectToLiveAPI is invoked once by the mount effect and after that only
\* by a retry click made in the Error state; no other step invokes it.
C9_ManualRetryOnly ==
    [][nAttempts' # nAttempts =>
          /\ nAttempts' = nAttempts + 1
          /\ \/ mounted = "pre" /\ mounted' = "live" /\ nAttempts = 0
             \/ /\ mounted = "live" /\ connectionState = "error"
                /\ retryClicks' = retryClicks + 1]_vars

\* C9 witness: a channel erred and closed, and the only second invocation is the
\* one the user's retry made.
C9_Witness ==
    /\ nAttempts = 2 /\ retryClicks = 1
    /\ phase[1] = "closed" /\ connectionState = "disconnected"

\* C10: in the Error state the captured error message is not empty.
C10_ErrorHasMessage == connectionState = "error" => errorMessage # ""

\* C10 witness: the Error state entered from the catch with an empty e.message,
\* after an earlier attempt was failed by on-error.
C10_Witness ==
    /\ connectionState = "error"
    /\ errorMessage = "Failed to initialize audio."
    /\ phase[1] = "errored" /\ phase[2] = "failed"

\* the image payloads submitted so far
Images == {i \in 1..Len(outbox) : outbox[i].mimeType = "image/jpeg"}

\* C11: no image/jpeg payload is submitted to the outbound channel at a moment
\* when the connection state is not Connected, a capture started while Connected
\* and finished after the state changed included.
C11_ImagesOnlyWhileConnected ==
    \A i \in Images : outbox[i].connAtSubmit = "connected"

\* C12: a capture that fails leaves the connection state, the playback cursor,
\* the live clip set, the audio capture path and the outbound payloads as they
\* were and keeps the interval as it was, and a capture that completes after an
\* earlier one failed still hands its payload to the session.
C12_FailureSkipsOneTick ==
    [][/\ \A k \in TickIds :
             (captures[k] = "rendering" /\ captures'[k] = "failed") =>
                 /\ UNCHANGED <<mounted, connectionState, errorMessage, nTicks>>
                 /\ UNCHANGED <<nextStartTimeRef, sourceNodesRef, isAiSpeaking>>
                 /\ UNCHANGED <<processorOn, closureMuted, isMuted, ctxIn, micStream>>
                 /\ UNCHANGED <<outbox, thenQueue, phase, sessionPromiseRef>>
       /\ \A k, j \in TickIds :
             (captures[k] = "failed" /\ captures[j] = "rendering" /\ captures'[j] = "done") =>
                 \/ outbox' = Append(outbox, ImagePayload(sessionPromiseRef, j, connectionState))
                 \/ thenQueue' = Append(thenQueue, [att |-> sessionPromiseRef, tick |-> j])]_vars

\* C12 witness: the first capture failed, the second was submitted while
\* Connected, and a microphone frame was submitted as well.
C12_Witness ==
    /\ captures[1] = "failed"
    /\ \E i \in Images : outbox[i].frame = 2 /\ outbox[i].connAtSubmit = "connected"
    /\ \E i \in 1..Len(outbox) : outbox[i].mimeType = "audio/pcm;rate=16000"
    /\ connectionState = "connected"

\* nothing the exit started is still on its way
Quiescent == \A a \in Attempts : phase[a] \notin {"awaitMic", "connecting", "closing"}

ChannelsClosed == \A a \in Attempts : phase[a] \notin {"connecting", "open", "closing"}

DeviceReleased == \A a \in Attempts : micStream[a] # "live"

ContextsClosed == \A a \in Attempts : ctxIn[a] # "running" /\ ctxOut[a] # "running"

\* C13: once the arena has been left and everything the exit started has
\* finished, the remote channel is closed, the capture device is released and
\* both audio contexts are closed.
C13_TeardownReleases ==
    (mounted = "gone" /\ Quiescent) =>
        ChannelsClosed /\ DeviceReleased /\ ContextsClosed

\* C14: in the order of the teardown's releases the channel close comes before
\* the close of either audio context.
C14_ChannelClosedBeforeContexts ==
    \A i, j \in 1..Len(teardownLog) :
        (teardownLog[i] = "closeChannel"
            /\ teardownLog[j] \in {"closeInputContext", "closeOutputContext"}) => i < j

\* C15: when the arena was left while the latest connect() was still waiting for
\* the microphone or for the channel to open, no channel is open afterwards, and
\* once nothing is on its way any more the channel is closed, the capture device
\* released and the contexts closed.
C15_NoChannelAfterEarlyExit ==
    (mounted = "gone" /\ exitPhase \in {"awaitMic", "connecting"}) =>
        /\ \A a \in Attempts : phase[a] # "open"
        /\ Quiescent => ChannelsClosed /\ DeviceReleased /\ ContextsClosed

\* C16: a message carrying the turn-complete signal appends exactly one
\* placeholder entry with the remote role to the end of the transcript, and no
\* other step changes the transcript, so that its length is the number of
\* turn-complete signals received and earlier entries stay as they were.
C16_TurnCompleteAppendsOne ==
    [][/\ \A a \in Attempts, m \in Messages :
             OnMessage(a, m) =>
                 transcriptRef' = IF m.turnComplete
                                  THEN Append(transcriptRef, Placeholder)
                                  ELSE transcriptRef
       /\ nMsgs' = nMsgs => transcriptRef' = transcriptRef]_vars

\* C17 as stated: handling a message that carries the interruption signal leaves
\* the transcript identical.
C17_InterruptionRecordsNothing ==
    [][\A a \in Attempts, m \in Messages :
          (m.interrupted /\ OnMessage(a, m)) => transcriptRef' = transcriptRef]_vars

\* C17, amended: handling a message that carries the interruption signal and no
\* turn-complete signal leaves the transcript identical.
C17_InterruptionAloneRecordsNothing ==
    [][\A a \in Attempts, m \in Messages :
          (m.interrupted /\ ~m.turnComplete /\ OnMessage(a, m)) =>
              transcriptRef' = transcriptRef]_vars

\* C17 witness: two turns recorded, then a third message whose interruption
\* branch ran and which recorded nothing.
C17_Witness ==
    /\ nMsgs = 3 /\ lastInterrupt = 3
    /\ transcriptRef = <<Placeholder, Placeholder>>

\* two digits, a colon, two digits, the seconds below 60
IsMMSS(d) ==
    /\ Len(d) = 5
    /\ d[3] = ":"
    /\ \A i \in {1, 2, 4, 5} : \E n \in 1..10 : d[i] = Digits[n]
    /\ \E n \in 1..6 : d[4] = Digits[n]

\* C18: the result object handed to onEnd has a duration of the form MM:SS and
\* the transcript accumulated during the session.
C18_ResultWellFormed ==
    sessionData.ended =>
        /\ IsMMSS(sessionData.duration)
        /\ sessionData.transcript = transcriptRef

\* C19: undo removes the last committed path and keeps the others in their
\* order when there is one, does nothing when there is none, and leaves the notes
\* and the shapes as they were.
C19_UndoRemovesLast ==
    [][Undo =>
          /\ paths # <<>> =>
                 /\ Len(paths') = Len(paths) - 1
                 /\ \A i \in 1..Len(paths') : paths'[i] = paths[i]
          /\ paths = <<>> => paths' = <<>>
          /\ UNCHANGED <<notes, shapes>>]_vars

\* C19 witness: a note placed, two different paths drawn, and the undo clicked
\* with both committed left the first of them.
C19_Witness ==
    /\ undoFrom = 2
    /\ Len(paths) = 1
    /\ paths[1].d = <<ScreenToWorld(0, 0)>>
    /\ Len(notes) = 1

\* C20: the viewport scale lies in [0.1, 5].
C20_ScaleInRange == MinScale <= scale /\ scale <= MaxScale

\* C20 witness: after a scroll, a zoom whose unclamped result is above 5 left
\* the scale at 5, and a zoom back brought it below.
C20_Witness ==
    /\ nGestures = 3
    /\ offset # [x |-> 0, y |-> 0]
    /\ scale = MaxScale - 300

\* C21: mapping a world point to the screen with the render transform and back with
\* screenToWorld yields the point again, for every scale of the allowed range, every
\* offset and every viewport centre (in exact arithmetic)
C21_RoundTrip ==
    roundTrip.called => roundTrip.world = roundTrip.args.p

\* a round trip at a scale other than 1 with an offset and a viewport centre that
\* is not a whole number, through a screen position that is not a whole number
C21_Witness ==
    /\ roundTrip.called
    /\ roundTrip.args.sc = 333
    /\ roundTrip.args.off.x # 0
    /\ roundTrip.args.vs.w = 1025
    /\ roundTrip.screen.x.den # 1
    /\ roundTrip.screen # roundTrip.args.p
    /\ roundTrip.world = roundTrip.args.p

\* C22: once the canvas is shown in a container of 800 by 600, with scale 1 and
\* offset (0,0) a click at (400,300) relative to the container maps to world point
\* (0,0): the centre used by the mapping is half of the container's size
C22_CentreIsHalfViewport ==
    (CanvasShown /\ scale = InitialScale /\ offset = [x |-> 0, y |-> 0])
        => /\ ScreenToWorld(ContainerRect.left + 400, ContainerRect.top + 300)
                = [x |-> Frac(0, 1), y |-> Frac(0, 1)]
           /\ viewportSize = ContainerSize

\* sample i of a converted buffer, read back as a signed number of 16 bits
PcmOut(i) == GetInt16(pcm.buffer[2 * i - 1], pcm.buffer[2 * i])

\* C23: the conversion gives two bytes per sample; 1.0 gives 32767, -1.0 gives
\* -32768, 0.0 gives 0, a sample above 1 gives 32767, a sample below -1 gives
\* -32768, and every output is in [-32768, 32767]
C23_PcmConversion ==
    pcm.called =>
        /\ Len(pcm.buffer) = 2 * Len(pcm.float32Array)
        /\ \A i \in 1..Len(pcm.float32Array) :
              LET x == pcm.float32Array[i]
              IN  /\ PcmOut(i) \in -32768..32767
                  /\ x = Num(1, 1) => PcmOut(i) = 32767
                  /\ x = Num(-1, 1) => PcmOut(i) = -32768
                  /\ x = Num(0, 1) => PcmOut(i) = 0
                  /\ Less(Num(1, 1), x) => PcmOut(i) = 32767
                  /\ Less(x, Num(-1, 1)) => PcmOut(i) = -32768

\* a converted buffer with a sample above 1 and the sample -1.0
C23_Witness ==
    /\ pcm.called
    /\ pcm.float32Array = <<Num(3, 2), Num(-1, 1)>>
    /\ pcm.buffer = <<255, 127, 0, 128>>

AudioSent(i) == outbox[i].mimeType = "audio/pcm;rate=16000"

\* C24: of two microphone frames captured on one connection, the payload of the
\* earlier one is submitted to the channel before the payload of the later one
C24_FramesInCaptureOrder ==
    \A i, j \in DOMAIN outbox :
        (i < j /\ AudioSent(i) /\ AudioSent(j) /\ outbox[i].att = outbox[j].att)
            => outbox[i].frame < outbox[j].frame

\* two frames of one connection on the channel with a snapshot between them,
\* after an inbound message
C24_Witness ==
    /\ Len(outbox) = 3
    /\ AudioSent(1) /\ ~AudioSent(2) /\ AudioSent(3)
    /\ outbox[1].att = outbox[3].att
    /\ nMsgs > 0

Waiting(queue, a) == SelectSeq(queue, LAMBDA q : q.att = a)
IsPrefix(s, t) == Len(s) <= Len(t) /\ SubSeq(t, 1, Len(s)) = s

\* C26: no payload is submitted to a session before its connection promise has
\* resolved; a payload produced before that waits, is not dropped while it waits,
\* and as the promise resolves all waiting payloads are submitted in the order in
\* which they were produced
C26_SendsWaitForPromise ==
    /\ [](/\ \A i \in DOMAIN outbox : outbox[i].att \in processorOn
          /\ \A i \in DOMAIN thenQueue : thenQueue[i].att \notin processorOn)
    /\ [][\A a \in Attempts :
            IF a \notin processorOn /\ a \in processorOn'
            THEN /\ outbox' = outbox \o [i \in 1..Len(Waiting(thenQueue, a)) |->
                                 ImagePayload(a, Waiting(thenQueue, a)[i].tick, connectionState')]
                 /\ Waiting(thenQueue', a) = <<>>
            ELSE /\ IsPrefix(Waiting(thenQueue, a), Waiting(thenQueue', a))
                 /\ a \notin processorOn => IsPrefix(outbox, outbox')]_vars

\* two snapshots produced while the promise of the second attempt is pending wait
\* for it, in the order of their ticks, and nothing has been submitted to it
C26_Witness ==
    /\ sessionPromiseRef = 2
    /\ phase[2] = "connecting"
    /\ Len(thenQueue) = 2
    /\ thenQueue[1] = [att |-> 2, tick |-> 1]
    /\ thenQueue[2] = [att |-> 2, tick |-> 2]
    /\ \A i \in DOMAIN outbox : outbox[i].att # 2

\* C27: every step other than an undo (mouse down, move, release or leave, wheel,
\* tool or colour change, session events) leaves the committed paths as a prefix
\* of the new sequence of paths
C27_PathsAppendOnly ==
    [][IsPrefix(paths, paths') \/ Undo]_vars

\* two committed paths of different colours, the second one committed after the
\* colour change, in a zoomed canvas whose channel has closed
C27_Witness ==
    /\ Len(paths) = 2
    /\ paths[1].color # paths[2].color
    /\ scale # InitialScale
    /\ connectionState = "disconnected"

C29_StampAtClick ==
    [][\A p \in ScreenPoints :
          (activeTool \in {"note", "shape"} /\ HandleMouseDown(p))
              => LET new == IF activeTool = "note" THEN notes' ELSE shapes'
                     old == IF activeTool = "note" THEN notes ELSE shapes
                 IN  /\ Len(new) = Len(old) + 1
                     /\ IsPrefix(old, new)
                     /\ new[Len(new)].x = ScreenToWorld(p.x, p.y).x
                     /\ new[Len(new)].y = ScreenToWorld(p.x, p.y).y
                     /\ paths' = paths
                     /\ activeTool = "note" => shapes' = shapes
                     /\ activeTool = "shape" => notes' = notes
                     /\ isDragging' = isDragging
                     /\ activeTool' = "cursor"]_vars

\* C29: a click with the note tool appends one note whose position is the mapped
\* world point of the click; a click with the shape tool appends one shape whose
\* position is that point less 50 on each axis; either leaves the paths and the
\* other records, starts no drag and selects the cursor tool
C29_StampNoteOrShape ==
    [][\A p \in ScreenPoints :
          (activeTool \in {"note", "shape"} /\ HandleMouseDown(p))
              => LET w == ScreenToWorld(p.x, p.y)
                 IN  /\ activeTool = "note"
                           => /\ Len(notes') = Len(notes) + 1
                              /\ IsPrefix(notes, notes')
                              /\ notes'[Len(notes')].x = w.x
                              /\ notes'[Len(notes')].y = w.y
                              /\ shapes' = shapes
                     /\ activeTool = "shape"
                           => /\ Len(shapes') = Len(shapes) + 1
                              /\ IsPrefix(shapes, shapes')
                              /\ shapes'[Len(shapes')].x = FracSub(w.x, Frac(50, 1))
                              /\ shapes'[Len(shapes')].y = FracSub(w.y, Frac(50, 1))
                              /\ notes' = notes
                     /\ paths' = paths
                     /\ isDragging' = isDragging
                     /\ activeTool' = "cursor"]_vars

\* a note and a shape stamped by clicks at (400, 300) and the cursor tool selected
C29_Witness ==
    /\ Len(notes) = 1
    /\ Len(shapes) = 1
    /\ notes[1].x = Frac(400, 1) /\ notes[1].y = Frac(300, 1)
    /\ shapes[1].x = Frac(350, 1) /\ shapes[1].y = Frac(250, 1)
    /\ activeTool = "cursor"

\* C30: a wheel event with ctrl or meta changes only the scale, to
\* scale - deltaY * 0.001 limited to [0.1, 5], and leaves the offset; a wheel
\* event without them changes only the offset, by the scroll delta taken off
\* each axis, and leaves the scale; neither changes the drawing
C30_WheelFrame ==
    [][\A e \in WheelEvents :
          HandleWheel(e)
              => /\ IF e.ctrlKey
                    THEN /\ scale' = IF scale - e.deltaY < MinScale THEN MinScale
                                     ELSE IF scale - e.deltaY > MaxScale THEN MaxScale
                                     ELSE scale - e.deltaY
                         /\ offset' = offset
                    ELSE /\ offset'.x = offset.x - e.deltaX
                         /\ offset'.y = offset.y - e.deltaY
                         /\ scale' = scale
                 /\ UNCHANGED <<paths, currentPath, notes, shapes, viewportSize, activeTool,
                                isDragging, dragStart, activeColor>>]_vars

\* a canvas zoomed in by one wheel event and panned on both axes by another
C30_Witness ==
    /\ nGestures = 2
    /\ scale = InitialScale + 300
    /\ offset = [x |-> -40, y |-> 300]

\* C31: a mouse down with the hand tool records the pointer and leaves the offset;
\* every move of the drag adds to the offset the displacement of the pointer since
\* the recorded position, in screen units whatever the scale, and records the new
\* position: offset minus pointer stays what it was at the start of the gesture.
\* The scale is unchanged.
C31_PanFollowsPointer ==
    [][\A p \in ScreenPoints :
          /\ (activeTool = "hand" /\ HandleMouseDown(p))
                => /\ isDragging'
                   /\ dragStart' = p
                   /\ offset' = offset
                   /\ scale' = scale
          /\ (isDragging /\ activeTool = "hand" /\ HandleMouseMove(p))
                => /\ offset'.x - p.x = offset.x - dragStart.x
                   /\ offset'.y - p.y = offset.y - dragStart.y
                   /\ dragStart' = p
                   /\ scale' = scale]_vars

\* a zoomed canvas dragged with the hand tool from (400, 300) to (0, 0)
C31_Witness ==
    /\ scale = InitialScale + 300
    /\ activeTool = "hand"
    /\ isDragging
    /\ nGestures = 3
    /\ dragStart = [x |-> 0, y |-> 0]
    /\ offset = [x |-> -400, y |-> -300]

\* C32: after a retry the callbacks of an earlier attempt (its onopen, onclose,
\* onerror and onmessage) change neither the connection state nor the clips nor
\* the transcript
C32_StaleCallbacksInert ==
    [][\A a \in Attempts :
          (/\ a < nAttempts
           /\ \/ OnOpen(a)
              \/ OnClose(a)
              \/ OnError(a)
              \/ \E m \in Messages : OnMessage(a, m))
              => /\ connectionState' = connectionState
                 /\ clips' = clips
                 /\ transcriptRef' = transcriptRef]_vars

\* C33: once onclose or onerror has set the state to 'disconnected' or 'error',
\* a microphone frame submits no audio payload
C33_AudioOnlyWhileConnected ==
    [][\A a \in Attempts :
          (connectionState \in {"disconnected", "error"} /\ OnAudioProcess(a))
              => outbox' = outbox]_vars

LiveChannels == {a \in Attempts : phase[a] \in {"connecting", "open", "closing"}}
LivePipelines == {a \in Attempts : a \in processorOn /\ ctxIn[a] = "running"}
LiveInputContexts == {a \in Attempts : ctxIn[a] = "running"}
LiveOutputContexts == {a \in Attempts : ctxOut[a] = "running"}

\* C34: at any time at most one channel, one capture pipeline and one pair of
\* audio contexts are live, and once the arena has been left and everything the
\* exit started has finished every channel and every context of the session is
\* closed
C34_AtMostOneLive ==
    /\ Cardinality(LiveChannels) <= 1
    /\ Cardinality(LivePipelines) <= 1
    /\ Cardinality(LiveInputContexts) <= 1
    /\ Cardinality(LiveOutputContexts) <= 1
    /\ (mounted = "gone" /\ Quiescent) => (LiveChannels = {} /\ ContextsClosed)

\* the clips scheduled on the current output context that have not ended
LiveOnCurrentContext ==
    {c \in MsgIds : clips[c].state \in {"scheduled", "playing"} /\ clips[c].epoch = audioContextRef}

\* C35: on a connection made by a retry, a clip that arrives when no clip of the
\* new output context is live starts at that context's current time, whatever
\* cursor and clips the previous connection left
C35_FirstClipAfterRetryStartsNow ==
    [][\A a \in Attempts, m \in Messages :
          (/\ a > 1
           /\ a = nAttempts
           /\ m.audio.present /\ m.audio.ok
           /\ LiveOnCurrentContext = {}
           /\ OnMessage(a, m))
              => clips'[nMsgs + 1].start = CurrentTime]_vars

\* C36: whenever no drag is active the in-progress path is empty
C36_NoStrokeWithoutDrag ==
    ~isDragging => currentPath = <<>>

\* a response that carries no image: rejected, without candidates, or with no
\* part that has inline data
ImageLess(r) ==
    r.rejected \/ ~r.candidates \/ \A i \in DOMAIN r.parts : ~r.parts[i].inlineData

\* C37: the arena view is on only with a topic that is not blank and an image
\* URL that is not empty; a generation that failed or brought no image leaves
\* the home view on and constructs no arena; the summary view is on only with
\* the session data of an ended session; restart empties topic, image URL and
\* session data and puts the home view back.
C37_ViewInvariant ==
    /\ [](currentView = "ARENA" => Trim(topic) # <<>> /\ initialInfographic # <<>>)
    /\ [](currentView = "SUMMARY" => sessionData # NoResult /\ sessionData.ended)
    /\ [][\A r \in Responses :
             GenerateContentSettled(r) /\ ImageLess(r)
                => /\ currentView' = "HOME"
                   /\ nSessions' = nSessions
                   /\ UNCHANGED <<arenaVars, topic, initialInfographic>>]_vars
    /\ [][currentView # "ARENA" /\ currentView' = "ARENA"
             => /\ currentView = "HOME"
                /\ topic' = homeTopic
                /\ nSessions' = nSessions + 1
                /\ mounted' = "pre"]_vars
    /\ [][currentView = "SUMMARY" /\ currentView' # "SUMMARY"
             => /\ currentView' = "HOME"
                /\ topic' = <<>>
                /\ initialInfographic' = <<>>
                /\ sessionData' = NoResult]_vars

\* a second session's arena, entered after a restart with the topic as typed,
\* spaces included, and the URL of an inline part without data
C37_Witness ==
    /\ currentView = "ARENA"
    /\ nSessions = 2
    /\ mounted = "live"
    /\ topic = <<" ", "d", " ">>
    /\ initialInfographic = <<"data:image/png;base64,", "">>
    /\ sessionData = NoResult

====
